---- MODULE Spec2Model ----
(***************************************************************************)
(* Model of management_activity.py: main, get_session_with_retries,        *)
(* get_access_token, get_new_file_name and collect_logs.                   *)
(*                                                                         *)
(* The program is one sequential process.  pc is its position; every       *)
(* action is one step of the code between two observable effects (an HTTP  *)
(* exchange, a file open, an event write, a return or a raise).            *)
(*                                                                         *)
(* The environment is the remote service and the disk:                     *)
(*   server   the listing the content endpoint holds, each entry with the  *)
(*            blob its contentUri dereferences to;                         *)
(*   files    the content of every output file, by name;                   *)
(*   prior    the content the files had before the run started.            *)
(* The status of every HTTP response is an input chosen at each exchange.  *)
(* Content URIs are https URIs, as the Management Activity API returns     *)
(* them, so every request of a run goes through the mounted adapter.       *)
(***************************************************************************)
EXTENDS Integers, Sequences, FiniteSets, TLC

\* ---------------------------------------------------------------- bounds
MaxEntries == 2
MaxEvents == 2

\* ------------------------------------------------------ program constants
REQUEST_TIMEOUT == 120
EVENT_OUTPUT_FILE_BASE == "azure_ad_logs/management_activity_event_output"
EVENT_OUTPUT_FILE_EXTENSION == ".json"
MAX_FILE_SIZE_MB == 500
\* Retry(total=5, ...)
RetryTotal == 5
\* Retry(status_forcelist=[429, 500, 502, 503, 504])
status_forcelist == {429, 500, 502, 503, 504}
\* urllib3 Retry.DEFAULT_ALLOWED_METHODS, in force because Retry(...) is
\* built without allowed_methods: POST is not among them.
allowed_methods == {"HEAD", "GET", "PUT", "DELETE", "OPTIONS", "TRACE"}
\* the rotation threshold of line 90, MAX_FILE_SIZE_MB * 1024 * 1024
MaxFileSize == MAX_FILE_SIZE_MB * 1024 * 1024

\* session.post(url, data=body) passes no timeout
NoTimeout == 0
\* content.get("contentUri") of an entry without the field
None == "None"

\* ------------------------------------------------------------ environment
\* statuses a server answers with: success, a client error, transient ones
Statuses == {200, 401, 429, 503}

\* serialized lengths, len(json.dumps(event, ensure_ascii=False)), of the
\* events the service returns: half the threshold less the newline, and a
\* record as large as the whole threshold
Half == MaxFileSize \div 2
EventSizes == {Half - 1, MaxFileSize}

RECURSIVE SeqsUpTo(_, _)
SeqsUpTo(S, n) ==
    IF n = 0 THEN {<<>>}
    ELSE LET shorter == SeqsUpTo(S, n - 1)
         IN  shorter \cup {Append(s, x) : s \in {t \in shorter : Len(t) = n - 1}, x \in S}

\* an event object: opaque, identified by where the service holds it
Event(k, j, n) == [id |-> <<k, j>>, len |-> n]

EntryShapes ==
    {[contentUri |-> u, sizes |-> <<>>] : u \in {None, ""}}
    \cup {[contentUri |-> "https://manage.office.com/content", sizes |-> s] :
             s \in SeqsUpTo(EventSizes, MaxEvents)}

Entry(k, shape) ==
    [contentUri |-> shape.contentUri,
     events |-> [j \in 1..Len(shape.sizes) |-> Event(k, j, shape.sizes[j])]]

Listings ==
    {[k \in 1..Len(l) |-> Entry(k, l[k])] : l \in SeqsUpTo(EntryShapes, MaxEntries)}

\* get_new_file_name: f"{base_name}_{index}{extension}"
get_new_file_name(base_name, extension, index) == <<base_name, index, extension>>

\* a run rotates at most once per event written
MaxIndex == MaxEntries * MaxEvents
FileNames ==
    {get_new_file_name(EVENT_OUTPUT_FILE_BASE, EVENT_OUTPUT_FILE_EXTENSION, i) : i \in 0..MaxIndex}
\* the value of `file` while no handle is open
NoName == <<>>

\* json.dump(event, file, ensure_ascii=False); file.write("\n"):
\* the line holds the serialization of the event and the newline
Line_altered(event) == [json |-> Event(0, 0, event.len), chars |-> event.len + 1]
Line(event) == [json |-> event, chars |-> event.len + 1]
\* json.loads of a line of the file
Parse(line) == line.json
\* a line left by an earlier run
PriorLine == Line(Event(0, 0, Half - 1))
PriorContents ==
    {[n \in FileNames |-> <<>>],
     [n \in FileNames |-> IF n[2] <= 1 THEN <<PriorLine>> ELSE <<>>]}

VARIABLES
    pc,                \* position of the program
    env,               \* TENANT_ID, CLIENT_ID, CLIENT_SECRET as os.getenv sees them
    server,            \* the listing and blobs the service holds
    files,             \* content of the output files, by name
    prior,             \* content of the output files before the run
    calls,             \* the session calls of the run, in the order issued
    sent,              \* times the latest call has been sent on the wire
    retries,           \* Retry.total left for the call in flight
    status,            \* status of the last response received
    token,             \* main's token
    content_list,      \* collect_logs locals
    k,                 \*   position of the for loop of line 71
    event_data,
    j,                 \*   position of the for loop of line 83
    file,              \*   the name the open handle of line 82 was opened on
    file_index,
    current_file_name,
    current_file_size,
    total_logs,
    returned,          \* what collect_logs returned to main
    error              \* what main's except clause caught

vars == <<pc, env, server, files, prior, calls, sent, retries, status, token,
          content_list, k, event_data, j, file, file_index, current_file_name,
          current_file_size, total_logs, returned, error>>

locals == <<content_list, k, event_data, j, file, file_index, current_file_name,
            current_file_size, total_logs>>

Init ==
    /\ pc = "main"
    /\ env = [TENANT_ID |-> None, CLIENT_ID |-> None, CLIENT_SECRET |-> None]
    /\ server \in Listings
    /\ prior \in PriorContents
    /\ files = prior
    /\ calls = <<>>
    /\ sent = 0
    /\ retries = 0
    /\ status = 0
    /\ token = None
    /\ content_list = <<>>
    /\ k = 0
    /\ event_data = <<>>
    /\ j = 0
    /\ file = NoName
    /\ file_index = 0
    /\ current_file_name = NoName
    /\ current_file_size = 0
    /\ total_logs = 0
    /\ returned = -1
    /\ error = None

\* ----------------------------------------------------------- HTTP session
\* urllib3 Retry.is_retry for the Retry of get_session_with_retries: a
\* status of the forcelist is retried only for a method of allowed_methods
is_retry_never(method, status_code) == FALSE
is_retry(method, status_code) ==
    /\ method \in allowed_methods
    /\ status_code \in status_forcelist

\* What one exchange of the call in flight leads to, r being Retry.total
\* before it: HTTPAdapter.send resends while Retry.increment leaves
\* total >= 0, raises RetryError once it is exhausted, and otherwise hands
\* the response to the caller, whose raise_for_status raises on 4xx and 5xx.
Outcome_unchecked(method, status_code, r) ==
    IF method \in allowed_methods /\ status_code \in status_forcelist
    THEN IF r - 1 < 0 THEN "RetryError" ELSE "retry"
    ELSE "ok"
Outcome_one_more(method, status_code, r) ==
    IF method \in allowed_methods /\ status_code \in status_forcelist
    THEN IF r < 0 THEN "RetryError" ELSE "retry"
    ELSE IF status_code >= 400 THEN "HTTPError" ELSE "ok"
Outcome(method, status_code, r) ==
    IF is_retry(method, status_code)
    THEN IF r - 1 < 0 THEN "RetryError" ELSE "retry"
    ELSE IF status_code >= 400 THEN "HTTPError" ELSE "ok"

\* the call of the session a function issues
Call(kind, method, timeout, entry) ==
    [kind |-> kind, method |-> method, timeout |-> timeout, entry |-> entry]

InFlight == calls[Len(calls)]

\* one more send of the call in flight, answered with status s
Exchange(s) ==
    /\ sent' = sent + 1
    /\ UNCHANGED calls
    /\ status' = s
    /\ retries' = IF Outcome(InFlight.method, s, retries) = "retry" THEN retries - 1 ELSE retries

\* main's except clause: the exception is logged and the run ends
Raise_swallowed(e) ==
    /\ pc' = "done"
    /\ error' = e
Raise(e) ==
    /\ pc' = "failed"
    /\ error' = e

\* the truth value of a string or None, as in `not content_uri`
Truthy_not_None(v) == v # None
Truthy(v) == v \notin {None, ""}

\* ------------------------------------------------------------------- main
\* main, lines 100-122: the credentials are read and checked, the session
\* is built
main_start ==
    /\ pc = "main"
    /\ \E t \in {None, "", "tenant"}, c \in {None, "", "client"}, s \in {None, "", "secret"} :
          /\ env' = [TENANT_ID |-> t, CLIENT_ID |-> c, CLIENT_SECRET |-> s]
          /\ IF Truthy(t) /\ Truthy(c) /\ Truthy(s)
             THEN pc' = "token" /\ UNCHANGED error
             ELSE Raise("ValueError")
    /\ UNCHANGED <<server, files, prior, calls, sent, retries, status, token, locals, returned>>

\* get_access_token, lines 34-41: session.post(url, data=body)
get_access_token ==
    /\ pc = "token"
    /\ calls' = Append(calls, Call("token", "POST", NoTimeout, 0))
    /\ sent' = 0
    /\ retries' = RetryTotal
    /\ pc' = "token_http"
    /\ UNCHANGED <<env, server, files, prior, status, token, locals, returned, error>>

\* get_access_token, lines 41-43: the answer of the token endpoint
token_response ==
    /\ pc = "token_http"
    /\ \E s \in Statuses, has_access_token \in BOOLEAN :
          /\ Exchange(s)
          /\ LET o == Outcome("POST", s, retries)
             IN  IF o = "retry" THEN UNCHANGED <<pc, error, token>>
                 ELSE IF o # "ok" THEN Raise(o) /\ UNCHANGED token
                 ELSE IF ~has_access_token THEN Raise("KeyError") /\ UNCHANGED token
                 ELSE /\ token' = "access_token"
                      /\ pc' = "collect"
                      /\ UNCHANGED error
    /\ UNCHANGED <<env, server, files, prior, locals, returned>>

\* ----------------------------------------------------------- collect_logs
\* lines 51-67: the locals are set and the listing is requested
collect_logs ==
    /\ pc = "collect"
    /\ file_index' = 0
    /\ current_file_name' =
          get_new_file_name(EVENT_OUTPUT_FILE_BASE, EVENT_OUTPUT_FILE_EXTENSION, 0)
    /\ current_file_size' = 0
    /\ total_logs' = 0
    /\ calls' = Append(calls, Call("listing", "GET", REQUEST_TIMEOUT, 0))
    /\ sent' = 0
    /\ retries' = RetryTotal
    /\ pc' = "list_http"
    /\ UNCHANGED <<env, server, files, prior, status, token, content_list, k,
                   event_data, j, file, returned, error>>

\* lines 67-69: the answer of the content-listing endpoint
list_response ==
    /\ pc = "list_http"
    /\ \E s \in Statuses :
          /\ Exchange(s)
          /\ LET o == Outcome("GET", s, retries)
             IN  IF o = "retry" THEN UNCHANGED <<pc, error, content_list, k>>
                 ELSE IF o # "ok" THEN Raise(o) /\ UNCHANGED <<content_list, k>>
                 ELSE /\ content_list' =
                            [i \in 1..Len(server) |-> [contentUri |-> server[i].contentUri]]
                      /\ k' = 1
                      /\ pc' = "loop"
                      /\ UNCHANGED error
    /\ UNCHANGED <<env, server, files, prior, token, event_data, j, file, file_index,
                   current_file_name, current_file_size, total_logs, returned>>

\* lines 71-74: an entry whose contentUri is absent or empty is passed over
skip_entry ==
    /\ pc = "loop"
    /\ k <= Len(content_list)
    /\ ~Truthy(content_list[k].contentUri)
    /\ k' = k + 1
    /\ UNCHANGED <<pc, env, server, files, prior, calls, sent, retries, status, token,
                   content_list, event_data, j, file, file_index, current_file_name,
                   current_file_size, total_logs, returned, error>>

\* line 77: session.get(content_uri, headers=headers, timeout=REQUEST_TIMEOUT)
ContentCall_base_url(entry) == Call("listing", "GET", REQUEST_TIMEOUT, entry)
ContentCall(entry) == Call("content", "GET", REQUEST_TIMEOUT, entry)

\* lines 71-77: the blob of the next entry is requested
fetch_content ==
    /\ pc = "loop"
    /\ k <= Len(content_list)
    /\ Truthy(content_list[k].contentUri)
    /\ calls' = Append(calls, ContentCall(k))
    /\ sent' = 0
    /\ retries' = RetryTotal
    /\ pc' = "fetch_http"
    /\ UNCHANGED <<env, server, files, prior, status, token, locals, returned, error>>

\* lines 77-79: the answer of the content endpoint
fetch_response ==
    /\ pc = "fetch_http"
    /\ \E s \in Statuses :
          /\ Exchange(s)
          /\ LET o == Outcome("GET", s, retries)
             IN  IF o = "retry" THEN UNCHANGED <<pc, error, event_data>>
                 ELSE IF o # "ok" THEN Raise(o) /\ UNCHANGED event_data
                 ELSE /\ event_data' = server[k].events
                      /\ pc' = "open"
                      /\ UNCHANGED error
    /\ UNCHANGED <<env, server, files, prior, token, content_list, k, j, file, file_index,
                   current_file_name, current_file_size, total_logs, returned>>

\* open(name, "a"): what the file holds once opened for appending
Opened_truncating(content) == <<>>
Opened(content) == content

\* line 82: with open(current_file_name, "a") as file
open_file ==
    /\ pc = "open"
    /\ file' = current_file_name
    /\ files' = [files EXCEPT ![current_file_name] = Opened(@)]
    /\ j' = 1
    /\ pc' = "write"
    /\ UNCHANGED <<env, server, prior, calls, sent, retries, status, token, content_list,
                   k, event_data, file_index, current_file_name, current_file_size,
                   total_logs, returned, error>>

\* line 87: total_logs += 1
Counted_not(total) == total
Counted(total) == total + 1

\* lines 90-93: the rotation test after a write that brought the counter to size
Rotates_at_threshold(size) == size >= MaxFileSize
Rotates(size) == size > MaxFileSize

\* lines 83-93: one event is written through the open handle and counted,
\* and the file name is rotated when the counter passed the threshold
write_event ==
    /\ pc = "write"
    /\ j <= Len(event_data)
    /\ LET event == event_data[j]
           size == current_file_size + Line(event).chars
       IN  /\ files' = [files EXCEPT ![file] = Append(@, Line(event))]
           /\ total_logs' = Counted(total_logs)
           /\ IF Rotates(size)
              THEN /\ file_index' = file_index + 1
                   /\ current_file_name' =
                         get_new_file_name(EVENT_OUTPUT_FILE_BASE,
                                           EVENT_OUTPUT_FILE_EXTENSION, file_index + 1)
                   /\ current_file_size' = 0
              ELSE /\ current_file_size' = size
                   /\ UNCHANGED <<file_index, current_file_name>>
    /\ j' = j + 1
    /\ UNCHANGED <<pc, env, server, prior, calls, sent, retries, status, token, content_list,
                   k, event_data, file, returned, error>>

\* line 82: what the with block leaves of the handle on the way out
Released_leaked(handle) == handle
Released(handle) == NoName

\* lines 82-83: the blob is exhausted, the with block closes the handle and
\* the loop of line 71 goes on
close_file ==
    /\ pc = "write"
    /\ j > Len(event_data)
    /\ file' = Released(file)
    /\ k' = k + 1
    /\ pc' = "loop"
    /\ UNCHANGED <<env, server, files, prior, calls, sent, retries, status, token, content_list,
                   event_data, j, file_index, current_file_name, current_file_size,
                   total_logs, returned, error>>

\* lines 82-85: open or a write raises OSError; the with block closes the
\* handle on the way out
write_fails ==
    /\ \/ pc = "open"
       \/ pc = "write" /\ j <= Len(event_data)
    /\ file' = Released(file)
    /\ Raise("OSError")
    /\ UNCHANGED <<env, server, files, prior, calls, sent, retries, status, token, content_list,
                   k, event_data, j, file_index, current_file_name, current_file_size,
                   total_logs, returned>>

\* lines 71, 95-96 and main 125-126: the listing is exhausted, the count is returned
collect_logs_return ==
    /\ pc = "loop"
    /\ k > Len(content_list)
    /\ returned' = total_logs
    /\ pc' = "done"
    /\ UNCHANGED <<env, server, files, prior, calls, sent, retries, status, token, locals, error>>

Next ==
    \/ main_start
    \/ get_access_token
    \/ token_response
    \/ collect_logs
    \/ list_response
    \/ skip_entry
    \/ fetch_content
    \/ fetch_response
    \/ open_file
    \/ write_event
    \/ close_file
    \/ write_fails
    \/ collect_logs_return

Spec == Init /\ [][Next]_vars

\* The runs that start on an empty output directory: what the files held
\* before the run is only ever appended to and decides no step of the run.
LiveInit == Init /\ \A n \in FileNames : prior[n] = <<>>

\* The program is sequential and blocks only in I/O: as long as every HTTP
\* call is answered and every file operation returns, it takes its next step.
LiveSpec == LiveInit /\ [][Next]_vars /\ WF_vars(Next)

\* ----------------------------------------------------------------- typing
TypeOK ==
    /\ pc \in {"main", "token", "token_http", "collect", "list_http", "loop",
               "fetch_http", "open", "write", "done", "failed"}
    /\ file \in FileNames \cup {NoName}
    /\ file_index \in 0..MaxIndex
    /\ retries \in 0..RetryTotal
    /\ total_logs \in 0..MaxIndex

\* ------------------------------------------------- what a run has written
\* the lines the run appended to the file of a name
Written(n) == SubSeq(files[n], Len(prior[n]) + 1, Len(files[n]))

FileOfIndex(i) ==
    get_new_file_name(EVENT_OUTPUT_FILE_BASE, EVENT_OUTPUT_FILE_EXTENSION, i)

RECURSIVE Chars(_)
Chars(lines) == IF lines = <<>> THEN 0 ELSE Head(lines).chars + Chars(Tail(lines))

\* the lines of the run, files read in increasing index order
RECURSIVE WrittenFrom(_)
WrittenFrom(i) == IF i > MaxIndex THEN <<>> ELSE Written(FileOfIndex(i)) \o WrittenFrom(i + 1)
AllWritten == WrittenFrom(0)

\* how many of the lines parse back to the event
Occurrences(event, lines) == Cardinality({p \in 1..Len(lines) : Parse(lines[p]) = event})

\* every one of the events occurs in the lines, n times if n > 0
EachOccurs(events, lines, n) ==
    \A p \in 1..Len(events) :
        LET c == Occurrences(events[p], lines)
        IN  IF n > 0 THEN c = n ELSE c >= 1

\* the events the service holds behind the content URIs of entries 1..n
RECURSIVE EventsUpTo(_)
EventsUpTo(n) ==
    IF n <= 0 THEN <<>>
    ELSE EventsUpTo(n - 1) \o (IF server[n].contentUri \in {None, ""} THEN <<>> ELSE server[n].events)

\* the largest record, newline included, the service holds
MaxRecord ==
    LET all == EventsUpTo(Len(server))
    IN  IF all = <<>> THEN 0
        ELSE CHOOSE m \in {all[p].len + 1 : p \in 1..Len(all)} :
                \A p \in 1..Len(all) : all[p].len + 1 <= m

LastCall == calls[Len(calls)]

\* ------------------------------------------------------------------ claims

\* C1: the bytes a run writes to any single output file never exceed the
\* rotation threshold by more than one event record (newline included).
C1_FileSizeBounded ==
    \A n \in FileNames : Chars(Written(n)) <= MaxFileSize + MaxRecord

\* C2: once the file index has moved past i, nothing more is appended to
\* file i: every write goes to a file whose index is at least file_index.
C2_NoWriteAfterRotation ==
    [][\A n \in FileNames : n[2] < file_index => files'[n] = files[n]]_vars

\* C3: when collect_logs returns, the count equals the number of events in
\* the blobs of the entries that have a content URI, and the number of
\* lines appended to the output files during the run.
C3_ReturnedCount ==
    pc = "done" =>
        /\ returned = Len(EventsUpTo(Len(server)))
        /\ returned = Len(AllWritten)

C3_Witness ==
    /\ pc = "done"
    /\ Len(server) = 2
    /\ returned = 4
    /\ file_index >= 1

\* the listing request or a content fetch has ended in failure: a status
\* that is not retried, or a transient one on the send after the last retry
HttpFailed ==
    /\ calls # <<>>
    /\ LastCall.kind \in {"listing", "content"}
    /\ sent > 0
    /\ \/ status \in {400, 401, 403, 404}
       \/ status \in {429, 500, 502, 503, 504} /\ sent > RetryTotal

\* C4: an HTTP failure of the listing request or of a content fetch aborts
\* the run: the run is failed with no count returned, and from then on no
\* request is issued, nothing is written and the loop does not advance.
C4_FailureAborts ==
    /\ [](HttpFailed => pc = "failed" /\ returned = -1)
    /\ [][pc = "failed" => UNCHANGED <<pc, calls, sent, files, k, returned>>]_vars

C4_Witness ==
    /\ HttpFailed
    /\ LastCall.kind = "content"
    /\ LastCall.entry = 1
    /\ Len(content_list) = 2
    /\ pc = "failed"

\* C5: on failure nothing collected is lost: in a failed run the files hold
\* every event of every blob of the entries before the one the run failed
\* on, and the failing step itself leaves every file unchanged.
C5_NoEventLost ==
    /\ [](pc = "failed" => EachOccurs(EventsUpTo(k - 1), AllWritten, 0))
    /\ [][pc' = "failed" => files' = files]_vars

C5_Witness ==
    /\ pc = "failed"
    /\ HttpFailed
    /\ LastCall.kind = "content"
    /\ k = 2
    /\ Len(EventsUpTo(1)) = 2
    /\ prior[FileOfIndex(0)] # <<>>

\* C6: an entry whose contentUri is absent or empty is passed over: no
\* request, no write, no change of the counters or of the file index, no
\* error, and the loop goes on with the next entry.
C6_SkipWithoutUri ==
    [][(/\ pc = "loop"
        /\ k <= Len(content_list)
        /\ content_list[k].contentUri \in {None, ""})
       => /\ k' = k + 1
          /\ pc' = "loop"
          /\ UNCHANGED <<calls, sent, files, total_logs, current_file_size, file_index,
                         current_file_name, error, returned>>]_vars

C6_Witness ==
    /\ pc = "done"
    /\ Len(content_list) = 2
    /\ content_list[1].contentUri = ""
    /\ content_list[2].contentUri # ""
    /\ content_list[2].contentUri # None
    /\ returned = 2

\* the token endpoint has answered the token request with a non-2xx status
TokenRejected ==
    /\ calls # <<>>
    /\ LastCall.kind = "token"
    /\ sent > 0
    /\ status # 200

\* C7: a non-2xx answer of the token endpoint aborts the run before any
\* listing or content request and before any file write.
C7_TokenFailureAborts ==
    /\ [](TokenRejected => pc = "failed" /\ Len(calls) = 1 /\ files = prior)
    /\ [][pc = "failed" => UNCHANGED <<pc, calls, sent, files>>]_vars
    /\ [](token = None => (\A c \in 1..Len(calls) : calls[c].kind = "token") /\ files = prior)

C7_Witness ==
    /\ TokenRejected
    /\ status = 401
    /\ pc = "failed"
    /\ error = "HTTPError"

\* C8: a content fetch answered with a transient status within the retry
\* budget and then with 200 succeeds, and the events of its blob are
\* written and counted exactly once.
C8_RetriedFetchOnce ==
    /\ [][(/\ pc = "fetch_http"
           /\ sent' = sent + 1
           /\ sent' <= RetryTotal
           /\ status' = 503) => pc' = "fetch_http" /\ UNCHANGED <<files, total_logs>>]_vars
    /\ [][(/\ pc = "fetch_http"
           /\ sent' = sent + 1
           /\ status' = 200) => pc' = "open" /\ event_data' = server[k].events]_vars
    /\ [](pc \in {"loop", "done"} =>
             /\ EachOccurs(EventsUpTo(k - 1), AllWritten, 1)
             /\ total_logs = Len(EventsUpTo(k - 1))
             /\ Len(AllWritten) = total_logs)

C8_Witness ==
    /\ pc = "loop"
    /\ k = 2
    /\ LastCall.kind = "content"
    /\ LastCall.entry = 1
    /\ sent = 3
    /\ status = 200
    /\ total_logs = 2
    /\ Occurrences(server[1].events[1], AllWritten) = 1
    /\ Occurrences(server[1].events[2], AllWritten) = 1

\* C9: a transient status answered to the token POST, the listing GET or a
\* content GET is retried while retry attempts remain.
C9_EveryRequestRetried ==
    [][(/\ pc \in {"token_http", "list_http", "fetch_http"}
        /\ sent' = sent + 1
        /\ status' \in {429, 500, 502, 503, 504}
        /\ retries > 0) => pc' = pc]_vars

\* C10 as stated: a request is sent at most 5 times, first attempt included.
C10_AtMostFiveSends == sent <= 5

\* C10 as amended: a request that keeps receiving a transient status is
\* sent at most 6 times, the first attempt and 5 retries, and the failure
\* surfaces at the sixth answer.
C10_AtMostSixSends ==
    /\ sent <= 6
    /\ (sent = 6 /\ status \in {429, 500, 502, 503, 504}) => pc = "failed"

C10_Witness ==
    /\ sent = 6
    /\ status = 503
    /\ pc = "failed"
    /\ error = "RetryError"
    /\ LastCall.kind = "content"

\* C11 as stated: every request of a run, the token request included,
\* carries the timeout of 120 seconds.
C11_EveryRequestTimeout ==
    \A c \in 1..Len(calls) : calls[c].timeout = REQUEST_TIMEOUT

\* the calls of the run to the content-listing endpoint
ListingCalls == {c \in 1..Len(calls) : calls[c].kind = "listing"}

\* C12: collect_logs calls the content-listing endpoint exactly once per
\* run, whatever the number of entries and of content requests: never
\* twice, and once as soon as collect_logs has started.  (The resends the
\* retry layer makes of that one call are counted by sent, not here.)
C12_OneListingRequest ==
    /\ Cardinality(ListingCalls) <= 1
    /\ pc \in {"list_http", "loop", "fetch_http", "open", "write", "done"}
          => Cardinality(ListingCalls) = 1
    /\ pc \in {"main", "token", "token_http", "collect"} => ListingCalls = {}

C12_Witness ==
    /\ pc = "done"
    /\ Len(content_list) = 2
    /\ Len(calls) = 4
    /\ Cardinality(ListingCalls) = 1

\* a credential os.getenv returned is missing or empty
MissingCredential ==
    \/ env.TENANT_ID \in {None, ""}
    \/ env.CLIENT_ID \in {None, ""}
    \/ env.CLIENT_SECRET \in {None, ""}

\* C13: when a credential is missing or empty, main reports the
\* configuration error and the run never issues a request.
C13_MissingCredentialNoNetwork ==
    (pc # "main" /\ MissingCredential) =>
        /\ pc = "failed"
        /\ error = "ValueError"
        /\ calls = <<>>
        /\ sent = 0
        /\ files = prior

C13_Witness ==
    /\ pc = "failed"
    /\ error = "ValueError"
    /\ env.TENANT_ID = "tenant"
    /\ env.CLIENT_ID = "client"
    /\ env.CLIENT_SECRET = ""

\* C14: the output handle is released on every exit path: a handle is open
\* only while a blob is being written, a handle is only acquired when none
\* is open, and none is open once collect_logs has returned or raised.
C14_HandleReleased ==
    /\ [](file # NoName => pc = "write")
    /\ [](pc \in {"done", "failed"} => file = NoName)
    /\ [][(file' # NoName /\ file' # file) => file = NoName]_vars
    /\ [][(file' # NoName /\ pc # "write") => file = NoName]_vars

C14_Witness ==
    /\ pc = "failed"
    /\ error = "OSError"
    /\ file = NoName
    /\ k = 2
    /\ j = 2
    /\ Len(event_data) = 2
    /\ total_logs = 3

\* s is a prefix of t
IsPrefix(s, t) == Len(s) <= Len(t) /\ SubSeq(t, 1, Len(s)) = s

\* C15: output files are append-only: every step leaves what a file held
\* as a prefix of what it holds, so the content of a prior run and what
\* the run wrote earlier are never overwritten.
C15_AppendOnly ==
    /\ [][\A n \in FileNames : IsPrefix(files[n], files'[n])]_vars
    /\ [](\A n \in FileNames : IsPrefix(prior[n], files[n]))

C15_Witness ==
    /\ prior[FileOfIndex(0)] = <<PriorLine>>
    /\ prior[FileOfIndex(1)] = <<PriorLine>>
    /\ Len(files[FileOfIndex(0)]) = 2
    /\ Len(files[FileOfIndex(1)]) = 3
    /\ pc = "done"

\* C16: a run ends, returned or failed and never both: it reaches the state
\* where the count is returned or the state where the error is caught, a
\* returned run has caught no error, a failed run has returned no count,
\* and both states are final.
C16_RunsToCompletion ==
    /\ <>(pc \in {"done", "failed"})
    /\ [](pc = "done" => returned >= 0 /\ error = None)
    /\ [](pc = "failed" => returned = -1 /\ error # None)
    /\ [][(pc = "done" \/ pc = "failed") => pc' = pc]_vars

C16_Witness ==
    /\ pc = "done"
    /\ returned = 3
    /\ Len(calls) = 4
    /\ error = None

\* C17: current_file_size is the sum of (serialized length + 1) over the
\* events the run appended to the file the current file_index names.
C17_CounterTracksCurrentFile ==
    pc \in {"list_http", "loop", "fetch_http", "open", "write", "done", "failed"}
       => current_file_size = Chars(Written(FileOfIndex(file_index)))

\* C18: a write rotates exactly when it brings the byte counter strictly
\* above the threshold; a rotation adds 1 to the file index, names the file
\* of the new index and resets the counter, and the event count only moves
\* by the event written; without rotation the counter holds the new size
\* and the index and the file name stay.
C18_RotationRule ==
    [][(pc = "write" /\ j' = j + 1) =>
          LET size == current_file_size + event_data[j].len + 1
          IN  /\ total_logs' = total_logs + 1
              /\ IF size > 500 * 1024 * 1024
                 THEN /\ file_index' = file_index + 1
                      /\ current_file_name' =
                            <<EVENT_OUTPUT_FILE_BASE, file_index + 1, EVENT_OUTPUT_FILE_EXTENSION>>
                      /\ current_file_size' = 0
                 ELSE /\ file_index' = file_index
                      /\ current_file_name' = current_file_name
                      /\ current_file_size' = size]_vars

C18_Witness ==
    /\ current_file_size = 500 * 1024 * 1024
    /\ file_index = 1
    /\ total_logs = 3
    /\ current_file_name = FileOfIndex(1)

\* the events the lines parse back to, in order
Parsed(lines) == [p \in 1..Len(lines) |-> Parse(lines[p])]

\* C19: the lines of the run, files read in increasing index order, parse
\* back to the events of the blobs in listing order and blob order, each
\* once: all those of the entries done and, while a blob is being written,
\* its events written so far; at any time a prefix of all the events.
C19_EventsInOrder ==
    LET got == Parsed(AllWritten)
    IN  /\ IsPrefix(got, EventsUpTo(Len(server)))
        /\ pc \in {"loop", "done"} => got = EventsUpTo(k - 1)
        /\ pc = "write" => got = EventsUpTo(k - 1) \o SubSeq(event_data, 1, j - 1)

C19_Witness ==
    /\ pc = "done"
    /\ Len(AllWritten) = 4
    /\ Written(FileOfIndex(0)) # <<>>
    /\ Written(FileOfIndex(1)) # <<>>
    /\ prior[FileOfIndex(0)] # <<>>
    /\ Parsed(AllWritten) = EventsUpTo(2)

\* C20: the files a run appends to have indices without a gap: if it has
\* appended to the file of index i > 0, it has appended to every file of
\* a smaller index.
C20_NoIndexGap ==
    \A i \in 1..MaxIndex :
        Written(FileOfIndex(i)) # <<>> =>
            \A h \in 0..(i - 1) : Written(FileOfIndex(h)) # <<>>

====
